---- MODULE Spec2Model ----
(***************************************************************************)
(* Model of config/config.go of terragrunt: format detection, decoding,    *)
(* the single-level include resolution and the parent/child merge.         *)
(*                                                                         *)
(* Strings that the code inspects by characters (paths) are sequences of   *)
(* character chunks: "/live/prod.terragrunt" is                            *)
(* <<"/", "live", "/", "prod", ".terragrunt">>, the empty string is <<>>.  *)
(* A Go nil pointer is the record Nil.                                     *)
(***************************************************************************)
EXTENDS Naturals, Sequences, FiniteSets

VARIABLES
    fs,          \* the files on disk, fixed at first access: path -> content
    optsPath,    \* terragruntOptions.TerragruntConfigPath
    stack,       \* the active ParseConfigFile calls, innermost last
    result,      \* what the outermost ParseConfigFile returned: [cfg, err]
    trace,       \* the steps executed so far, in order
    logs,        \* what was printed on terragruntOptions.Logger
    phase,       \* "idle", "parsing", "done", "classified"
    classified,  \* what IsTerragruntConfigFile returned: [path, is, err]
    mChild,      \* mergeConfigWithIncludedConfig: argument config
    mParent,     \* mergeConfigWithIncludedConfig: argument includedConfig
    mOut         \* mergeConfigWithIncludedConfig: the returned configuration

vars == <<fs, optsPath, stack, result, trace, logs, phase, classified, mChild, mParent, mOut>>

pipelineVars == <<fs, optsPath, stack, result, trace, logs, phase, classified>>

mergeVars == <<mChild, mParent, mOut>>

Nil == [nil |-> TRUE]

(***************************************************************************)
(* Bounds of the merge inputs.                                             *)
(***************************************************************************)
\* longest extra_arguments list of a merge input of SpecArgs
MaxArgs == 2

\* longest extra_arguments list of a merge input of SpecMerge
MaxTfArgs == 1

(***************************************************************************)
(* Paths.                                                                  *)
(***************************************************************************)
Sep == "/"

DefaultTerragruntConfigPath == <<"terraform.tfvars">>

OldTerragruntConfigPath == <<".terragrunt">>

\* strings.HasSuffix
HasSuffix(s, suffix) ==
    /\ Len(s) >= Len(suffix)
    /\ SubSeq(s, Len(s) - Len(suffix) + 1, Len(s)) = suffix

isOldTerragruntConfig(path) == HasSuffix(path, OldTerragruntConfigPath)

\* the position of the last separator of a path, 0 when it has none
LastSep(path) ==
    LET idx == {i \in 1..Len(path) : path[i] = Sep}
    IN  IF idx = {} THEN 0 ELSE CHOOSE i \in idx : \A j \in idx : j <= i

\* the file name: the last path component
BaseName(path) == SubSeq(path, LastSep(path) + 1, Len(path))

\* filepath.IsAbs
IsAbs(path) == Len(path) > 0 /\ path[1] = Sep

\* filepath.Dir
Dir(path) ==
    LET k == LastSep(path)
    IN  IF k = 0 THEN <<".">>
        ELSE IF k = 1 THEN <<Sep>>
        ELSE SubSeq(path, 1, k - 1)

\* util.JoinPath
JoinPath(dir, rel) ==
    IF dir = <<".">> THEN rel
    ELSE IF dir[Len(dir)] = Sep THEN dir \o rel
    ELSE dir \o <<Sep>> \o rel

PTfvars == <<Sep>> \o DefaultTerragruntConfigPath

POld == <<Sep>> \o OldTerragruntConfigPath

PProd == <<Sep, "live", Sep, "prod">> \o OldTerragruntConfigPath

PLive == <<Sep, "live", Sep>> \o DefaultTerragruntConfigPath

\* the paths a top-level parse is started on
TopPaths == {PTfvars, POld, PProd}

\* every path a file may be looked up at
FilePaths == TopPaths \cup {PLive}

(***************************************************************************)
(* Interpolation (ResolveTerragruntConfigString).  A chunk "${root}" is an *)
(* interpolation that resolves to the root directory, "${bad}" one that    *)
(* cannot be resolved.                                                     *)
(***************************************************************************)
InterpFails(s) == \E i \in 1..Len(s) : s[i] = "${bad}"

InterpValue(s) == [i \in 1..Len(s) |-> IF s[i] = "${root}" THEN Sep ELSE s[i]]

(***************************************************************************)
(* The decoded structures.                                                 *)
(***************************************************************************)
ExtraArgs(name, command) ==
    [Name |-> name, Arguments |-> <<>>, RequiredVarFiles |-> <<>>,
     OptionalVarFiles |-> <<>>, Commands |-> <<command>>]

TerraformConfig(source, extraArgs) == [Source |-> source, ExtraArgs |-> extraArgs]

IncludeConfig(path) == [Path |-> path]

ModuleDependencies(paths) == [Paths |-> paths]

RemoteState(backend, valid) == [Backend |-> backend, Valid |-> valid, Filled |-> FALSE]

\* remote.RemoteState.FillDefaults
FillDefaults(rs) == [rs EXCEPT !.Filled = TRUE]

\* remote.RemoteState.Validate
Validate(rs) == rs.Valid

terragruntConfigFile(tf, inc, lock, rs, deps) ==
    [Terraform |-> tf, Include |-> inc, Lock |-> lock, RemoteState |-> rs, Dependencies |-> deps]

TerragruntConfig(tf, rs, deps) ==
    [Terraform |-> tf, RemoteState |-> rs, Dependencies |-> deps]

EmptyConfigFile == terragruntConfigFile(Nil, Nil, Nil, Nil, Nil)

(***************************************************************************)
(* Errors.                                                                 *)
(***************************************************************************)
ReadFailure(path) == [type |-> "ReadFailure", path |-> path]

InterpolationFailure(path) == [type |-> "InterpolationFailure", path |-> path]

DecodeFailure(path) == [type |-> "DecodeFailure", path |-> path]

CouldNotResolveTerragruntConfigInFile(path) ==
    [type |-> "CouldNotResolveTerragruntConfigInFile", path |-> path]

IncludedConfigMissingPath(path) == [type |-> "IncludedConfigMissingPath", path |-> path]

TooManyLevelsOfInheritance(configPath, first, second) ==
    [type |-> "TooManyLevelsOfInheritance", ConfigPath |-> configPath,
     FirstLevelIncludePath |-> first, SecondLevelIncludePath |-> second]

RemoteStateValidationFailure(rs) == [type |-> "RemoteStateValidationFailure", rs |-> rs]

(***************************************************************************)
(* Files on disk.  The text of a file is either not HCL at all, or HCL     *)
(* whose top level is the terragrunt = { ... } block ("wrapped") or the    *)
(* configuration itself ("bare"); body is what is written in it, the       *)
(* include path as written (before interpolation).                         *)
(***************************************************************************)
Unknown == [kind |-> "unknown"]

Missing == [kind |-> "missing"]

Garbage == [kind |-> "garbage"]

Hcl(shape, body) == [kind |-> "hcl", shape |-> shape, body |-> body]

LockConfig == [Lock |-> TRUE]

CommandOf(path) == IF BaseName(path) = OldTerragruntConfigPath THEN "apply" ELSE "plan"

\* the include paths a file may declare
IncludePaths ==
    { <<>>,
      DefaultTerragruntConfigPath,
      <<"${root}">> \o OldTerragruntConfigPath,
      <<"${bad}">> }

\* what may be written in the file at path: every field absent or present
FileBodies(path) ==
    { terragruntConfigFile(tf, inc, lock, rs, deps) :
        tf \in {Nil, TerraformConfig(<<"git::">> \o path, <<ExtraArgs("common", CommandOf(path))>>)},
        inc \in {Nil} \cup {IncludeConfig(p) : p \in IncludePaths},
        lock \in {Nil, LockConfig},
        rs \in {Nil, RemoteState(path, TRUE), RemoteState(path, FALSE)},
        deps \in {Nil, ModuleDependencies(<<Dir(path)>>)} }

FileContents(path) ==
    {Missing, Garbage} \cup {Hcl(shape, body) : shape \in {"wrapped", "bare"}, body \in FileBodies(path)}

\* ResolveTerragruntConfigString on the text of a file: [err, val]
ResolveConfigString(content) ==
    IF content.kind # "hcl" \/ content.body.Include = Nil
    THEN [err |-> FALSE, val |-> content]
    ELSE IF InterpFails(content.body.Include.Path)
    THEN [err |-> TRUE, val |-> content]
    ELSE [err |-> FALSE,
          val |-> [content EXCEPT !.body.Include.Path = InterpValue(content.body.Include.Path)]]

\* ResolveTerragruntConfigString on an include path: [err, val]
ResolvePathString(path) ==
    IF InterpFails(path) THEN [err |-> TRUE, val |-> path]
    ELSE [err |-> FALSE, val |-> InterpValue(path)]

\* hcl.Decode(&terragruntConfigFile{}, s): keys the struct does not name are ignored
DecodeConfigFile(content) ==
    IF content.kind # "hcl" THEN [err |-> TRUE, val |-> Nil]
    ELSE IF content.shape = "bare" THEN [err |-> FALSE, val |-> content.body]
    ELSE [err |-> FALSE, val |-> EmptyConfigFile]

\* hcl.Decode(&tfvarsFileWithTerragruntConfig{}, s): the Terragrunt field
DecodeTfvarsFile(content) ==
    IF content.kind # "hcl" THEN [err |-> TRUE, val |-> Nil]
    ELSE IF content.shape = "wrapped" THEN [err |-> FALSE, val |-> content.body]
    ELSE [err |-> FALSE, val |-> Nil]

containsTerragruntBlock(content) ==
    LET d == DecodeTfvarsFile(content)
    IN  ~d.err /\ d.val # Nil

parseConfigStringAsTerragruntConfigFile(content, configPath) ==
    IF isOldTerragruntConfig(configPath)
    THEN DecodeConfigFile(content)
    ELSE DecodeTfvarsFile(content)

\* [err, val]: val is the TerragruntConfig, err the validation error or Nil
convertToTerragruntConfig(file) ==
    IF file.RemoteState # Nil /\ ~Validate(FillDefaults(file.RemoteState))
    THEN [err |-> RemoteStateValidationFailure(FillDefaults(file.RemoteState)), val |-> Nil]
    ELSE [err |-> Nil,
          val |-> TerragruntConfig(
                    file.Terraform,
                    IF file.RemoteState # Nil THEN FillDefaults(file.RemoteState) ELSE Nil,
                    file.Dependencies)]

(***************************************************************************)
(* The merge.                                                              *)
(***************************************************************************)
\* the first position of a group named name in list, 0 when there is none
IndexOfName(list, name) ==
    LET idx == {i \in 1..Len(list) : list[i].Name = name}
    IN  IF idx = {} THEN 0 ELSE CHOOSE i \in idx : \A j \in idx : i <= j

\* one iteration of the addExtra loop
AddExtra(acc, child) ==
    LET i == IndexOfName(acc, child.Name)
    IN  IF i > 0 THEN [acc EXCEPT ![i] = child] ELSE Append(acc, child)

mergeExtraArgs_appendAlways(childExtraArgs, parentExtraArgs) ==
    parentExtraArgs \o childExtraArgs

RECURSIVE mergeExtraArgs_skipExisting(_, _)
mergeExtraArgs_skipExisting(childExtraArgs, parentExtraArgs) ==
    IF childExtraArgs = <<>> THEN parentExtraArgs
    ELSE mergeExtraArgs_skipExisting(
            Tail(childExtraArgs),
            IF IndexOfName(parentExtraArgs, Head(childExtraArgs).Name) > 0
            THEN parentExtraArgs
            ELSE Append(parentExtraArgs, Head(childExtraArgs)))

RECURSIVE mergeExtraArgs(_, _)
mergeExtraArgs(childExtraArgs, parentExtraArgs) ==
    IF childExtraArgs = <<>> THEN parentExtraArgs
    ELSE mergeExtraArgs(Tail(childExtraArgs), AddExtra(parentExtraArgs, Head(childExtraArgs)))

\* the "from child overriding parent" notices of mergeExtraArgs, in order
RECURSIVE overrideNotices(_, _)
overrideNotices(childExtraArgs, parentExtraArgs) ==
    IF childExtraArgs = <<>> THEN <<>>
    ELSE (IF IndexOfName(parentExtraArgs, Head(childExtraArgs).Name) > 0
          THEN <<[msg |-> "override", name |-> Head(childExtraArgs).Name]>>
          ELSE <<>>)
         \o overrideNotices(Tail(childExtraArgs), AddExtra(parentExtraArgs, Head(childExtraArgs)))

mergeTerraform_childSourceAlways(child, parent) ==
    IF child = Nil THEN parent
    ELSE IF parent = Nil THEN child
    ELSE TerraformConfig(child.Source, mergeExtraArgs(child.ExtraArgs, parent.ExtraArgs))

\* lines 261-270: the Terraform field of the merged configuration
mergeTerraform(child, parent) ==
    IF child = Nil THEN parent
    ELSE IF parent = Nil THEN child
    ELSE TerraformConfig(
            IF child.Source # <<>> THEN child.Source ELSE parent.Source,
            mergeExtraArgs(child.ExtraArgs, parent.ExtraArgs))

mergeConfigWithIncludedConfig_depsFollowRemoteState(config, includedConfig) ==
    IF includedConfig = Nil THEN config
    ELSE TerragruntConfig(
            mergeTerraform(config.Terraform, includedConfig.Terraform),
            IF config.RemoteState # Nil THEN config.RemoteState ELSE includedConfig.RemoteState,
            IF config.RemoteState # Nil THEN config.Dependencies ELSE includedConfig.Dependencies)

mergeConfigWithIncludedConfig(config, includedConfig) ==
    IF includedConfig = Nil THEN config
    ELSE TerragruntConfig(
            mergeTerraform(config.Terraform, includedConfig.Terraform),
            IF config.RemoteState # Nil THEN config.RemoteState ELSE includedConfig.RemoteState,
            IF config.Dependencies # Nil THEN config.Dependencies ELSE includedConfig.Dependencies)

\* what mergeConfigWithIncludedConfig prints
mergeNotices(config, includedConfig) ==
    IF includedConfig = Nil \/ config.Terraform = Nil \/ includedConfig.Terraform = Nil
    THEN <<>>
    ELSE overrideNotices(config.Terraform.ExtraArgs, includedConfig.Terraform.ExtraArgs)

(***************************************************************************)
(* The parse pipeline.  A frame is one active ParseConfigFile call.        *)
(***************************************************************************)
Frame(configPath, include) ==
    [configPath |-> configPath, include |-> include, pc |-> "read",
     configString |-> Nil, file |-> Nil, config |-> Nil, includedConfig |-> Nil,
     ret |-> Nil]

Depth == Len(stack)

stepAfter_checkBeforeConvert(pc) ==
    IF pc = "decode" THEN "check"
    ELSE IF pc = "check" THEN "convert"
    ELSE "include"

\* parseConfigString: the step that follows a successful decode, conversion or check
stepAfter(pc) ==
    IF pc = "decode" THEN "convert"
    ELSE IF pc = "convert" THEN "check"
    ELSE "include"

Top == stack[Depth]

Event(step, ok) == [depth |-> Depth, step |-> step, ok |-> ok, path |-> Top.configPath]

\* the frame on top of the stack becomes f
SetTop(f) == stack' = [stack EXCEPT ![Depth] = f]

Returning(f, cfg, err) == [f EXCEPT !.pc = "return", !.ret = [cfg |-> cfg, err |-> err]]

InitPipeline ==
    /\ fs = [p \in FilePaths |-> Unknown]
    /\ optsPath = <<>>
    /\ stack = <<>>
    /\ result = Nil
    /\ trace = <<>>
    /\ logs = <<>>
    /\ phase = "idle"
    /\ classified = Nil

\* ReadTerragruntConfig: the top-level parse of terragruntOptions.TerragruntConfigPath
ReadTerragruntConfig(path) ==
    /\ phase = "idle"
    /\ phase' = "parsing"
    /\ optsPath' = path
    /\ logs' = Append(logs, [msg |-> "Reading Terragrunt config file", path |-> path])
    /\ stack' = <<Frame(path, Nil)>>
    /\ UNCHANGED <<fs, result, trace, classified, mergeVars>>

\* ParseConfigFile up to the file read
ReadConfigFile ==
    /\ phase = "parsing"
    /\ Top.pc = "read"
    /\ \E content \in (IF Top.configPath \notin FilePaths THEN {Missing}
                       ELSE IF fs[Top.configPath] = Unknown THEN FileContents(Top.configPath)
                       ELSE {fs[Top.configPath]}) :
        /\ fs' = IF Top.configPath \in FilePaths
                 THEN [fs EXCEPT ![Top.configPath] = content]
                 ELSE fs
        /\ logs' = IF isOldTerragruntConfig(Top.configPath)
                   THEN Append(logs, [msg |-> "DEPRECATION WARNING", path |-> Top.configPath])
                   ELSE logs
        /\ IF content = Missing
           THEN /\ SetTop(Returning(Top, Nil, ReadFailure(Top.configPath)))
                /\ trace' = Append(trace, Event("Read", FALSE))
           ELSE /\ SetTop([Top EXCEPT !.pc = "interpolate", !.configString = content])
                /\ trace' = Append(trace, Event("Read", TRUE))
    /\ UNCHANGED <<optsPath, result, phase, classified, mergeVars>>

\* parseConfigString: ResolveTerragruntConfigString
Interpolate ==
    /\ phase = "parsing"
    /\ Top.pc = "interpolate"
    /\ LET r == ResolveConfigString(Top.configString)
       IN  IF r.err
           THEN /\ SetTop(Returning(Top, Nil, InterpolationFailure(Top.configPath)))
                /\ trace' = Append(trace, Event("Interpolate", FALSE))
           ELSE /\ SetTop([Top EXCEPT !.pc = "decode", !.configString = r.val])
                /\ trace' = Append(trace, Event("Interpolate", TRUE))
    /\ UNCHANGED <<fs, optsPath, result, logs, phase, classified, mergeVars>>

\* parseConfigString: parseConfigStringAsTerragruntConfigFile and the nil check
Decode ==
    /\ phase = "parsing"
    /\ Top.pc = "decode"
    /\ LET d == parseConfigStringAsTerragruntConfigFile(Top.configString, Top.configPath)
       IN  IF d.err
           THEN /\ SetTop(Returning(Top, Nil, DecodeFailure(Top.configPath)))
                /\ trace' = Append(trace, Event("Decode", FALSE))
           ELSE IF d.val = Nil
           THEN /\ SetTop(Returning(Top, Nil, CouldNotResolveTerragruntConfigInFile(Top.configPath)))
                /\ trace' = Append(trace, Event("Decode", FALSE))
           ELSE /\ SetTop([Top EXCEPT !.pc = stepAfter("decode"), !.file = d.val])
                /\ trace' = Append(trace, Event("Decode", TRUE))
    /\ UNCHANGED <<fs, optsPath, result, logs, phase, classified, mergeVars>>

\* parseConfigString: convertToTerragruntConfig
ConvertToFinal ==
    /\ phase = "parsing"
    /\ Top.pc = "convert"
    /\ logs' = IF Top.file.Lock # Nil
               THEN Append(logs, [msg |-> "WARNING: lock configuration", path |-> optsPath])
               ELSE logs
    /\ LET c == convertToTerragruntConfig(Top.file)
       IN  IF c.err # Nil
           THEN /\ SetTop(Returning(Top, Nil, c.err))
                /\ trace' = Append(trace, Event("ConvertToFinal", FALSE))
           ELSE /\ SetTop([Top EXCEPT !.pc = stepAfter("convert"), !.config = c.val])
                /\ trace' = Append(trace, Event("ConvertToFinal", TRUE))
    /\ UNCHANGED <<fs, optsPath, result, phase, classified, mergeVars>>

depthError_frameConfigPath(f) ==
    TooManyLevelsOfInheritance(f.configPath, f.include.Path, f.file.Include.Path)

\* the error of the single-level check
depthError(f) ==
    TooManyLevelsOfInheritance(optsPath, f.include.Path, f.file.Include.Path)

tooManyLevels_never(f) == FALSE

\* the condition of the single-level check
tooManyLevels(f) == f.include # Nil /\ f.file.Include # Nil

\* parseConfigString: the single-level check
CheckInheritanceDepth ==
    /\ phase = "parsing"
    /\ Top.pc = "check"
    /\ IF tooManyLevels(Top)
       THEN /\ SetTop(Returning(Top, Nil, depthError(Top)))
            /\ trace' = Append(trace, Event("CheckInheritanceDepth", FALSE))
       ELSE /\ SetTop([Top EXCEPT !.pc = stepAfter("check")])
            /\ trace' = Append(trace, Event("CheckInheritanceDepth", TRUE))
    /\ UNCHANGED <<fs, optsPath, result, logs, phase, classified, mergeVars>>

\* parseIncludedConfig: the path ParseConfigFile is called on
resolvedIncludePath(path) ==
    IF IsAbs(path) THEN path ELSE JoinPath(Dir(optsPath), path)

missingPath_never(includedConfig) == FALSE

\* parseIncludedConfig: the empty-path test
missingPath(includedConfig) == includedConfig.Path = <<>>

\* parseConfigString: parseIncludedConfig, up to its call of ParseConfigFile
ResolveParent ==
    /\ phase = "parsing"
    /\ Top.pc = "include"
    /\ LET inc == Top.file.Include
       IN  IF inc = Nil
           THEN /\ SetTop([Top EXCEPT !.pc = "merge", !.includedConfig = Nil])
                /\ trace' = Append(trace, Event("ResolveParent", TRUE))
           ELSE IF missingPath(inc)
           THEN /\ SetTop(Returning(Top, Nil, IncludedConfigMissingPath(optsPath)))
                /\ trace' = Append(trace, Event("ResolveParent", FALSE))
           ELSE IF ResolvePathString(inc.Path).err
           THEN /\ SetTop(Returning(Top, Nil, InterpolationFailure(optsPath)))
                /\ trace' = trace \o <<Event("ResolveParent", TRUE), Event("InterpolatePath", FALSE)>>
           ELSE /\ stack' = Append([stack EXCEPT ![Depth] = [Top EXCEPT !.pc = "await"]],
                                   Frame(resolvedIncludePath(ResolvePathString(inc.Path).val), inc))
                /\ trace' = trace \o <<Event("ResolveParent", TRUE), Event("InterpolatePath", TRUE)>>
    /\ UNCHANGED <<fs, optsPath, result, logs, phase, classified, mergeVars>>

\* parseConfigString: mergeConfigWithIncludedConfig
Merge ==
    /\ phase = "parsing"
    /\ Top.pc = "merge"
    /\ SetTop(Returning(Top, mergeConfigWithIncludedConfig(Top.config, Top.includedConfig), Nil))
    /\ logs' = logs \o mergeNotices(Top.config, Top.includedConfig)
    /\ trace' = Append(trace, Event("Merge", TRUE))
    /\ UNCHANGED <<fs, optsPath, result, phase, classified, mergeVars>>

\* what the caller does with an included configuration that failed
afterIncludeError_mergeAnyway(caller, ret) ==
    [caller EXCEPT !.pc = "merge", !.includedConfig = Nil]

afterIncludeError(caller, ret) == Returning(caller, Nil, ret.err)

\* ParseConfigFile returns, to parseIncludedConfig and parseConfigString or to the first caller
Return ==
    /\ phase = "parsing"
    /\ Top.pc = "return"
    /\ trace' = Append(trace, Event("Return", Top.ret.err = Nil))
    /\ IF Depth = 1
       THEN /\ result' = Top.ret
            /\ stack' = <<>>
            /\ phase' = "done"
       ELSE /\ stack' = [SubSeq(stack, 1, Depth - 1) EXCEPT ![Depth - 1] =
                            IF Top.ret.err # Nil
                            THEN afterIncludeError(stack[Depth - 1], Top.ret)
                            ELSE [stack[Depth - 1] EXCEPT !.pc = "merge", !.includedConfig = Top.ret.cfg]]
            /\ UNCHANGED <<result, phase>>
    /\ UNCHANGED <<fs, optsPath, logs, classified, mergeVars>>

\* IsTerragruntConfigFile(path), with isNewTerragruntConfig
IsTerragruntConfigFile(path) ==
    /\ phase = "idle"
    /\ phase' = "classified"
    /\ \E content \in FileContents(path) :
        /\ fs' = [fs EXCEPT ![path] = content]
        /\ classified' =
             [path |-> path,
              is |-> IF content = Missing THEN FALSE
                     ELSE IF isOldTerragruntConfig(path) THEN TRUE
                     ELSE containsTerragruntBlock(content)]
    /\ UNCHANGED <<optsPath, stack, result, trace, logs, mergeVars>>

Init ==
    /\ InitPipeline
    /\ mChild = Nil
    /\ mParent = Nil
    /\ mOut = Nil

Next ==
    \/ \E path \in TopPaths : ReadTerragruntConfig(path)
    \/ ReadConfigFile
    \/ Interpolate
    \/ Decode
    \/ ConvertToFinal
    \/ CheckInheritanceDepth
    \/ ResolveParent
    \/ Merge
    \/ Return
    \/ \E path \in FilePaths : IsTerragruntConfigFile(path)

Spec == Init /\ [][Next]_vars

(***************************************************************************)
(* mergeConfigWithIncludedConfig on its own: the inputs are drawn from     *)
(* bounded sets of resolved configurations and the function is applied.    *)
(***************************************************************************)
SeqsUpTo(S, n) == UNION {[1..k -> S] : k \in 0..n}

GroupNames == {"common", "only-parent", "only-child"}

Commands == {"plan", "apply"}

Groups == {ExtraArgs(n, c) : n \in GroupNames, c \in Commands}

ChildSource == <<"git::https://child">>

ParentSource == <<"git::https://x">>

ChildRemoteState == FillDefaults(RemoteState(<<"child-bucket">>, TRUE))

ParentRemoteState == FillDefaults(RemoteState(<<"parent-bucket">>, TRUE))

\* SpecArgs: both sides declare tool settings, with arbitrary lists
InitArgs ==
    /\ InitPipeline
    /\ mChild \in {TerragruntConfig(TerraformConfig(<<>>, l), Nil, Nil) : l \in SeqsUpTo(Groups, MaxArgs)}
    /\ mParent \in {TerragruntConfig(TerraformConfig(ParentSource, l), Nil, Nil) : l \in SeqsUpTo(Groups, MaxArgs)}
    /\ mOut = Nil

ChildConfigs ==
    { TerragruntConfig(tf, rs, deps) :
        tf \in {Nil} \cup {TerraformConfig(src, l) : src \in {<<>>, ChildSource}, l \in SeqsUpTo(Groups, MaxTfArgs)},
        rs \in {Nil, ChildRemoteState},
        deps \in {Nil, ModuleDependencies(<<>>), ModuleDependencies(<<"../child-dep">>)} }

ParentConfigs ==
    { TerragruntConfig(tf, rs, deps) :
        tf \in {Nil} \cup {TerraformConfig(src, l) : src \in {<<>>, ParentSource}, l \in SeqsUpTo(Groups, MaxTfArgs)},
        rs \in {Nil, ParentRemoteState},
        deps \in {Nil, ModuleDependencies(<<"../parent-dep">>)} }

\* SpecMerge: every field present or absent on either side, the parent possibly nil
InitMerge ==
    /\ InitPipeline
    /\ mChild \in ChildConfigs
    /\ mParent \in ParentConfigs \cup {Nil}
    /\ mOut = Nil

\* one call of mergeConfigWithIncludedConfig(mChild, mParent, terragruntOptions)
CallMerge ==
    /\ mOut = Nil
    /\ mChild # Nil
    /\ mOut' = [cfg |-> mergeConfigWithIncludedConfig(mChild, mParent),
                notices |-> mergeNotices(mChild, mParent)]
    /\ UNCHANGED <<mChild, mParent, pipelineVars>>

NextMerge == CallMerge

SpecArgs == InitArgs /\ [][NextMerge]_vars

SpecMerge == InitMerge /\ [][NextMerge]_vars

(***************************************************************************)
(* Properties of the merge.                                                *)
(***************************************************************************)
NamesOf(list) == {list[i].Name : i \in 1..Len(list)}

DistinctNames(list) ==
    \A i, j \in 1..Len(list) : list[i].Name = list[j].Name => i = j

Count(list, name) == Cardinality({i \in 1..Len(list) : list[i].Name = name})

\* the last group of list that is named name
LastNamed(list, name) ==
    list[CHOOSE i \in 1..Len(list) :
            /\ list[i].Name = name
            /\ \A j \in 1..Len(list) : list[j].Name = name => j <= i]

Merged == mOut # Nil /\ mParent # Nil

BothHaveTerraform == mChild.Terraform # Nil /\ mParent.Terraform # Nil

ExampleParentArgs == <<ExtraArgs("common", "plan"), ExtraArgs("only-parent", "apply")>>

ExampleChildArgs == <<ExtraArgs("common", "apply")>>

\* C2: with pairwise distinct names in the parent list P and in the child list
\* C, the merged list has |P| + |names of C not in P| entries; position
\* i <= |P| holds C's group named like P[i] if there is one and P[i] otherwise;
\* the positions after |P| hold the child groups with names not in P, in the
\* child's order; [common(plan), only-parent(apply)] merged with
\* [common(apply)] is [common(apply), only-parent(apply)].
C2_KeyedListMerge ==
    (Merged /\ BothHaveTerraform
       /\ DistinctNames(mParent.Terraform.ExtraArgs)
       /\ DistinctNames(mChild.Terraform.ExtraArgs)) =>
    LET P == mParent.Terraform.ExtraArgs
        C == mChild.Terraform.ExtraArgs
        R == mOut.cfg.Terraform.ExtraArgs
    IN  /\ Len(R) = Len(P) + Cardinality(NamesOf(C) \ NamesOf(P))
        /\ \A i \in 1..Len(P) :
             /\ i <= Len(R)
             /\ R[i] = IF P[i].Name \in NamesOf(C) THEN LastNamed(C, P[i].Name) ELSE P[i]
        /\ SubSeq(R, Len(P) + 1, Len(R)) = SelectSeq(C, LAMBDA g : g.Name \notin NamesOf(P))
        /\ (P = ExampleParentArgs /\ C = ExampleChildArgs) =>
             R = <<ExtraArgs("common", "apply"), ExtraArgs("only-parent", "apply")>>

\* the example of C2 has been merged
C2_Witness ==
    /\ Merged
    /\ mParent.Terraform.ExtraArgs = ExampleParentArgs
    /\ mChild.Terraform.ExtraArgs = ExampleChildArgs
    /\ mOut.notices = <<[msg |-> "override", name |-> "common"]>>

\* C3 as stated: whatever the two lists, the merged list has pairwise distinct
\* names and, of each name the child declares, the child's last group.
C3_Original ==
    (Merged /\ BothHaveTerraform) =>
    LET C == mChild.Terraform.ExtraArgs
        R == mOut.cfg.Terraform.ExtraArgs
    IN  /\ DistinctNames(R)
        /\ \A n \in NamesOf(C) : \E i \in 1..Len(R) : R[i] = LastNamed(C, n)

\* C3, amended: a name occurs in the merged list as often as in the parent
\* list, and once when only the child declares it; so the merged names are
\* pairwise distinct when the parent's are, whatever duplicates the child
\* has.  The first entry of every name the child declares is the child's last
\* group of that name.
C3_MergeDeduplicatesChildOnly ==
    (Merged /\ BothHaveTerraform) =>
    LET P == mParent.Terraform.ExtraArgs
        C == mChild.Terraform.ExtraArgs
        R == mOut.cfg.Terraform.ExtraArgs
    IN  /\ \A n \in GroupNames :
             Count(R, n) = IF n \in NamesOf(P) THEN Count(P, n)
                           ELSE IF n \in NamesOf(C) THEN 1 ELSE 0
        /\ DistinctNames(P) => DistinctNames(R)
        /\ \A n \in NamesOf(C) : R[IndexOfName(R, n)] = LastNamed(C, n)

\* a child that declares one name twice has been merged into a parent with
\* distinct names, one of them that name
C3_Witness ==
    /\ Merged
    /\ BothHaveTerraform
    /\ mChild.Terraform.ExtraArgs = <<ExtraArgs("common", "plan"), ExtraArgs("common", "apply")>>
    /\ mParent.Terraform.ExtraArgs = ExampleParentArgs
    /\ mOut.cfg.Terraform.ExtraArgs = <<ExtraArgs("common", "apply"), ExtraArgs("only-parent", "apply")>>

\* C4: the merged tool settings are the parent's when the child has none, the
\* child's when the parent has none, and otherwise carry the child's source
\* if it is non-empty and the parent's source if the child's is empty.
C4_ToolSettings ==
    Merged =>
    /\ mChild.Terraform = Nil => mOut.cfg.Terraform = mParent.Terraform
    /\ (mChild.Terraform # Nil /\ mParent.Terraform = Nil) => mOut.cfg.Terraform = mChild.Terraform
    /\ BothHaveTerraform =>
         mOut.cfg.Terraform.Source =
            IF mChild.Terraform.Source # <<>>
            THEN mChild.Terraform.Source
            ELSE mParent.Terraform.Source

\* a child with an empty source has been merged into a parent with a source
C4_Witness ==
    /\ Merged
    /\ BothHaveTerraform
    /\ mChild.Terraform.Source = <<>>
    /\ mParent.Terraform.Source = ParentSource
    /\ mOut.cfg.Terraform.Source = ParentSource

\* C5: the merged remote state is the child's when the child declares one and
\* the parent's otherwise; the merged dependencies are the child's when the
\* child declares them (an empty list too) and the parent's otherwise; each
\* whatever the other fields are.
C5_WholesaleReplace ==
    Merged =>
    /\ mOut.cfg.RemoteState =
         IF mChild.RemoteState # Nil THEN mChild.RemoteState ELSE mParent.RemoteState
    /\ mOut.cfg.Dependencies =
         IF mChild.Dependencies # Nil THEN mChild.Dependencies ELSE mParent.Dependencies

\* a child with an empty dependency list and no remote state has been merged
\* into a parent that declares both
C5_Witness ==
    /\ Merged
    /\ mChild.Dependencies = ModuleDependencies(<<>>)
    /\ mChild.RemoteState = Nil
    /\ mParent.Dependencies = ModuleDependencies(<<"../parent-dep">>)
    /\ mParent.RemoteState = ParentRemoteState
    /\ mOut.cfg.Dependencies = ModuleDependencies(<<>>)
    /\ mOut.cfg.RemoteState = ParentRemoteState

(***************************************************************************)
(* Properties of the parse pipeline.                                       *)
(***************************************************************************)
\* the configuration the code decodes from the file at path, Nil when the
\* file is missing, unread, or fails to interpolate or to decode
DeclaredIn(path) ==
    IF path \notin FilePaths THEN Nil
    ELSE IF fs[path].kind # "hcl" THEN Nil
    ELSE IF ResolveConfigString(fs[path]).err THEN Nil
    ELSE parseConfigStringAsTerragruntConfigFile(ResolveConfigString(fs[path]).val, path).val

ChildFile == DeclaredIn(optsPath)

ParentPath == resolvedIncludePath(ChildFile.Include.Path)

ParentFile == DeclaredIn(ParentPath)

RemoteStateOk(file) == file.RemoteState = Nil \/ Validate(FillDefaults(file.RemoteState))

\* the paths of the files read so far, in order
ReadPaths ==
    LET reads == SelectSeq(trace, LAMBDA e : e.step = "Read")
    IN  [i \in 1..Len(reads) |-> reads[i].path]

Ran(depth, step) == \E i \in 1..Len(trace) : trace[i].depth = depth /\ trace[i].step = step

\* the top-level parse is over; the child declares an include of a parent
\* file that declares an include of its own
TwoLevels ==
    /\ phase = "done"
    /\ ChildFile # Nil
    /\ ChildFile.Include # Nil
    /\ ChildFile.Include.Path # <<>>
    /\ ParentFile # Nil
    /\ ParentFile.Include # Nil

TwoLevelsFailure ==
    /\ result.cfg = Nil
    /\ result.err = TooManyLevelsOfInheritance(optsPath, ChildFile.Include.Path, ParentFile.Include.Path)
    /\ ReadPaths = <<optsPath, ParentPath>>
    /\ ~Ran(1, "Merge")

Pos(order, step) == CHOOSE k \in 1..Len(order) : order[k] = step

\* the steps of every parse call run in this order, each after the one before it succeeded
InOrder(order) ==
    LET named == {i \in 1..Len(trace) : \E k \in 1..Len(order) : order[k] = trace[i].step}
    IN  /\ \A i, j \in named :
             (i < j /\ trace[i].depth = trace[j].depth) =>
                Pos(order, trace[i].step) < Pos(order, trace[j].step)
        /\ \A j \in named :
             Pos(order, trace[j].step) > 1 =>
                \E i \in named :
                    /\ i < j
                    /\ trace[i].depth = trace[j].depth
                    /\ trace[i].ok
                    /\ trace[i].step = order[Pos(order, trace[j].step) - 1]

\* the parent was parsed (with the child's include as its context), declares
\* an include and has invalid remote-state settings
InvalidSecondLevel == TwoLevels /\ RemoteStateOk(ChildFile) /\ ~RemoteStateOk(ParentFile)

C7_EmptyIncludePath ==
    (/\ phase = "done"
     /\ ChildFile # Nil
     /\ RemoteStateOk(ChildFile)
     /\ ChildFile.Include # Nil
     /\ ChildFile.Include.Path = <<>>) =>
    /\ result.cfg = Nil
    /\ result.err = IncludedConfigMissingPath(optsPath)
    /\ \A i \in 1..Len(trace) : trace[i].step # "InterpolatePath"
    /\ ReadPaths = <<optsPath>>
    /\ ~Ran(1, "Merge")

\* a file with tool settings and an include with the empty path was parsed
C7_Witness ==
    /\ phase = "done"
    /\ ChildFile # Nil
    /\ ChildFile.Include = IncludeConfig(<<>>)
    /\ ChildFile.Terraform # Nil
    /\ RemoteStateOk(ChildFile)
    /\ result.err.type = "IncludedConfigMissingPath"

StepNames ==
    {"Read", "Interpolate", "Decode", "ConvertToFinal", "CheckInheritanceDepth",
     "ResolveParent", "InterpolatePath", "Merge", "Return"}

\* C8: whatever the files include, at most two ParseConfigFile calls are
\* active or made, at most two files are read, a call with an include
\* context never makes a further call, and the parse ends: every call runs
\* each step at most once and a parse that is not over can take a step.
C8_AtMostTwoLevels ==
    /\ Depth <= 2
    /\ Len(ReadPaths) <= 2
    /\ \A d \in 1..Depth : stack[d].include # Nil => stack[d].pc # "await"
    /\ \A i \in 1..Len(trace) : trace[i].depth <= 2
    /\ \A i, j \in 1..Len(trace) :
         (trace[i].depth = trace[j].depth /\ trace[i].step = trace[j].step) => i = j
    /\ Len(trace) <= 2 * Cardinality(StepNames)
    /\ phase = "parsing" => ENABLED Next
    /\ phase = "done" => stack = <<>> /\ result # Nil

\* a file that includes itself was parsed: it was read twice and rejected
C8_Witness ==
    /\ phase = "done"
    /\ ReadPaths = <<optsPath, optsPath>>
    /\ result.err.type = "TooManyLevelsOfInheritance"

\* C9: a parse ends with a configuration and no error, or with no
\* configuration and an error; once a step has failed, nothing runs but the
\* returns of that error, by the call and then by its caller: no merge, and
\* the child's converted configuration is not returned.
C9_NoPartialSuccess ==
    /\ phase = "done" => (result.cfg = Nil) # (result.err = Nil)
    /\ \A d \in 1..Depth :
         stack[d].pc = "return" => (stack[d].ret.cfg = Nil) # (stack[d].ret.err = Nil)
    /\ \A i, j \in 1..Len(trace) :
         (i < j /\ ~trace[i].ok) => (trace[j].step = "Return" /\ ~trace[j].ok)
    /\ (phase = "done" /\ \E i \in 1..Len(trace) : ~trace[i].ok) =>
         /\ result.cfg = Nil
         /\ result.err # Nil

\* the parent failed after the child had been converted; the parse returned the error only
C9_Witness ==
    /\ phase = "done"
    /\ \E i \in 1..Len(trace) : trace[i].depth = 2 /\ ~trace[i].ok /\ trace[i].step = "Decode"
    /\ Ran(1, "ConvertToFinal")
    /\ ~Ran(1, "Merge")
    /\ result.cfg = Nil
    /\ result.err.type = "CouldNotResolveTerragruntConfigInFile"

\* C10: a path is treated as legacy format exactly when its file name is
\* .terragrunt; any other path is a configuration file only if its content
\* decodes and holds the terragrunt block, is decoded through the wrapper
\* (so a parse of a file without the block fails), and prints no
\* deprecation warning.
C10_LegacyByExactName ==
    /\ (phase = "classified" /\ BaseName(classified.path) # OldTerragruntConfigPath) =>
         (classified.is <=> containsTerragruntBlock(fs[classified.path]))
    /\ \A i \in 1..Len(trace) :
         trace[i].step = "Read" =>
            ((\E k \in 1..Len(logs) :
                 logs[k] = [msg |-> "DEPRECATION WARNING", path |-> trace[i].path])
             <=> BaseName(trace[i].path) = OldTerragruntConfigPath)
    /\ (phase = "done" /\ BaseName(optsPath) # OldTerragruntConfigPath /\ result.err = Nil) =>
         containsTerragruntBlock(fs[optsPath])

====
